---- MODULE Spec2Model ----
(***************************************************************************)
(* Model of smcopt/contact-sync: the Reconciler (src/sync_groups.py) and   *)
(* the Auditor (src/audit_groups.py), run against a group directory and a  *)
(* spreadsheet.  Strings are sequences of one-character strings so that    *)
(* str.strip(), str.lower() and the "'@' in s" test are computed, not      *)
(* assumed.                                                                *)
(***************************************************************************)
EXTENDS Integers, Sequences, FiniteSets, TLC

\* ------------------------------------------------------------------ bounds
\* Largest number of data rows in the MAIN table.
MaxRows == 2
\* Largest number of cells in the audit header row.
MaxHeader == 3

\* ----------------------------------------------------------------- strings
WS == {" "}

RECURSIVE LStrip(_)
LStrip(s) == IF s # <<>> /\ Head(s) \in WS THEN LStrip(Tail(s)) ELSE s

RECURSIVE RStrip(_)
RStrip(s) ==
  IF s # <<>> /\ s[Len(s)] \in WS THEN RStrip(SubSeq(s, 1, Len(s) - 1)) ELSE s

\* str.strip()
Strip(s) == RStrip(LStrip(s))

LowerChar(c) ==
  CASE c = "A" -> "a"
    [] c = "C" -> "c"
    [] c = "E" -> "e"
    [] c = "I" -> "i"
    [] c = "N" -> "n"
    [] c = "T" -> "t"
    [] c = "V" -> "v"
    [] OTHER -> c

\* str.lower()
Lower(s) == [i \in DOMAIN s |-> LowerChar(s[i])]

\* "c in s"
Contains(s, c) == \E i \in DOMAIN s : s[i] = c

\* ------------------------------------------------------- cells of the table
U1 == <<"u", "1">>
U2 == <<"u", "2">>
G1 == <<"g", "1">>
G2 == <<"g", "2">>
BLANK == <<" ">>
EMPTY == <<>>
ACTIVE == <<"a", "c", "t", "i", "v", "e">>
INACTIVE == <<"i", "n", "a", "c", "t", "i", "v", "e">>

UserIds == {U1, U2}
GroupIds == {G1, G2}

\* Rows as the Sheets API returns them for MAIN!A2:L: user, status, group
\* cells; trailing empty cells are cut, so a row may have 0, 1, 2 or more cells.
SheetRowPool ==
  { <<U1, ACTIVE, G1>>,
    <<<<" ", "u", "1", " ">>, <<" ", "A", "c", "t", "i", "v", "e", " ">>,
      <<"g", "2", " ">>>>,
    <<U2, ACTIVE, G1, G2>>,
    <<U1, <<"I", "N", "A", "C", "T", "I", "V", "E">>, BLANK, G2>>,
    <<U2>>,
    <<U1, EMPTY, G2>>,
    <<U2, <<"p", "e", "n", "d">>, G1>>,
    <<>>,
    <<BLANK, ACTIVE, G2>> }

RECURSIVE SeqsUpTo(_, _)
SeqsUpTo(S, n) ==
  IF n = 0 THEN {<<>>}
  ELSE LET shorter == SeqsUpTo(S, n - 1)
       IN  shorter \cup {Append(s, x) : s \in {t \in shorter : Len(t) = n - 1}, x \in S}

Sheets == SeqsUpTo(SheetRowPool, MaxRows)

\* Directory states a run may start from: every pair occurs as member and as
\* non-member, alone and together with the others.
MembershipPool ==
  { {}, GroupIds \X UserIds, {<<G1, U1>>, <<G2, U2>>}, {<<G2, U1>>, <<G1, U2>>} }

\* Protected users of the configuration surface (spec section 3, ProtectedSet).
ProtectedSet == {U1}

Runs == {1, 2}

\* ----------------------------------------------------- cells of the auditor
GA == <<"a", "@", "x">>
GB == <<"b", "@", "x">>
NOTMAIL == <<"n", "o">>
HeaderCells == {EMPTY, NOTMAIL, GA, GB}
Headers == SeqsUpTo(HeaderCells, MaxHeader)

M1 == [email |-> <<"m", "1">>, role |-> <<"M">>, type |-> <<"U">>]
M2 == [email |-> <<"m", "2">>, role |-> <<"O">>]
ListingPool == { <<>>, <<M1>>, <<M2, M1>> }

OLDROW == <<<<"o", "l", "d">>, EMPTY, EMPTY, EMPTY>>
PriorRanges == { <<>>, <<OLDROW, OLDROW, OLDROW, OLDROW>> }

VARIABLES
  scenario,          \* "sequential" | "concurrent" | "audit"
  sheet,             \* the MAIN table, unchanged during the scenario
  exists,            \* groups the directory knows
  members,           \* directory membership: set of <<group, user>>
  initMembers,       \* membership before any run (history)
  after1,            \* membership when the second sequential run starts (history)
  pc,                \* per run: position in main() of sync_groups
  cur,               \* per run: index of the row being processed
  all_known_groups,  \* per run: master list of groups
  toAdd,             \* per run: desired groups still to add for the row
  toRemove,          \* per run: groups still to remove for the row
  issued,            \* per run: <<row, group>> -> calls issued (history)
  otherErr,          \* <<run, row>> of the calls that returned OtherError; of a run
                     \* that ended before the next began, <<run, 0>> (history)
  overlap,           \* a call was issued while the other run was in its loop (history)
  setupFailed,       \* jobs whose authentication or first read failed: run, 0 = Auditor (history)
  apc,               \* position in main() of audit_groups
  mainHeader,        \* MAIN!F6:Z6 as the table service returns it
  listing,           \* directory: group -> its members in listing order
  group_emails,      \* the header as read
  gi,                \* index of the next header cell
  audit_data,        \* the report being accumulated
  auditRange,        \* content of AUDIT!A1:Z1000
  priorRange,        \* content of the range before the run (history)
  events             \* fetches, clear and write in the order made (history)

rvars == <<sheet, exists, members, initMembers, after1, pc, cur, all_known_groups,
           toAdd, toRemove, issued, otherErr, overlap>>

avars == <<apc, mainHeader, listing, group_emails, gi, audit_data, auditRange,
           priorRange, events>>

vars == <<scenario, setupFailed, rvars, avars>>

\* ------------------------------------------------- main(): reading the table

\* row[2:], the cells from column C onwards, stripped, blanks dropped
GroupCells(row) == { Strip(row[j]) : j \in 3..Len(row) } \ {EMPTY}

\* lines 108-115: the master list of groups
AllKnownGroups(rows) == UNION { GroupCells(rows[i]) : i \in DOMAIN rows }

\* line 125
UserOf(row) == Strip(row[1])

\* line 129 without .lower()
StatusNotLowered(row) == IF Len(row) > 1 THEN Strip(row[2]) ELSE INACTIVE

\* line 129
StatusOf(row) == IF Len(row) > 1 THEN Lower(Strip(row[2])) ELSE INACTIVE

\* lines 132-136
DesiredGroups(row) == GroupCells(row)

\* lines 123, 126: rows that are skipped
Skipped(row) == row = <<>> \/ UserOf(row) = EMPTY

\* lines 146-149: groups the row's user is added to
AddTargets(row, known) ==
  IF Skipped(row) THEN {}
  ELSE IF StatusOf(row) = ACTIVE THEN DesiredGroups(row)
  ELSE {}

\* lines 141-144, 151-155: groups the row's user is removed from
RemoveTargets(row, known) ==
  IF Skipped(row) THEN {}
  ELSE IF StatusOf(row) = INACTIVE THEN known
  ELSE IF StatusOf(row) = ACTIVE THEN known \ DesiredGroups(row)
  ELSE {}

\* rows after row i on which the loop issues a call; the others are passed over
BusyRows(i, known) ==
  { j \in (i + 1)..Len(sheet) :
      AddTargets(sheet[j], known) \cup RemoveTargets(sheet[j], known) # {} }

Min(S) == CHOOSE x \in S : \A y \in S : x <= y

\* ------------------------------------------------------ the group directory
AddOutcomes(m, g, u) ==
  (IF g \notin exists THEN {"GroupNotFound"}
   ELSE IF <<g, u>> \in m THEN {"AlreadyMember"}
   ELSE {"Success"}) \cup {"OtherError"}

RemoveOutcomes(m, g, u) ==
  (IF g \notin exists \/ <<g, u>> \notin m THEN {"NotMember"}
   ELSE {"Success"}) \cup {"OtherError"}

AddMember(m, g, u, o) == IF o = "Success" THEN m \cup {<<g, u>>} ELSE m

RemoveMember(m, g, u, o) == IF o = "Success" THEN m \ {<<g, u>>} ELSE m

\* -------------------------------------------------- safe_add / safe_remove
\* safe_add without the 409 branch: the conflict escapes
SafeAddRaisesOnConflict(o) == o # "AlreadyMember"

\* lines 54-64: every outcome of insert() is caught and printed
SafeAddSwallows(o) == o \in {"Success", "AlreadyMember", "GroupNotFound", "OtherError"}

\* safe_remove re-raising what is not a 404
SafeRemoveRaisesOnError(o) == o \in {"Success", "NotMember"}

\* safe_remove without the 404 branch: the miss escapes
SafeRemoveRaisesOnNotMember(o) == o # "NotMember"

\* lines 69-76: every outcome of delete() is caught and printed
SafeRemoveSwallows(o) == o \in {"Success", "NotMember", "OtherError"}

\* lines 86-88 without the return
AuthFailureFallsThrough == "read"

\* lines 86-88: FATAL, return
AuthFailurePc == "fatal"

\* lines 98-100: FATAL, return
ReadFailurePc == "fatal"

Ended(r) == pc[r] \in {"done", "fatal", "crashed"}

InLoop(r) == pc[r] = "rows"

NoCalls(r) == \A k \in DOMAIN issued[r] : issued[r][k] = <<>>

Other(r) == 3 - r

\* line 125: the user of the row being processed
UserEmail(r) == UserOf(sheet[cur[r]])

\* ------------------------------------------------------------------- Init
InitReconciler ==
  /\ sheet \in Sheets
  /\ exists \in {GroupIds, {G1}}
  /\ initMembers \in { m \cap (exists \X UserIds) : m \in MembershipPool }
  /\ members = initMembers
  /\ mainHeader = <<>>
  /\ listing = <<>>
  /\ priorRange = <<>>

InitAuditor ==
  /\ scenario = "audit"
  /\ sheet = <<>>
  /\ exists = {}
  /\ initMembers = {}
  /\ members = {}
  /\ mainHeader \in Headers
  /\ listing \in [{GA, GB} -> ListingPool]
  /\ priorRange \in PriorRanges

InitLocals ==
  /\ after1 = {}
  /\ pc = [r \in Runs |-> "idle"]
  /\ cur = [r \in Runs |-> 0]
  /\ all_known_groups = [r \in Runs |-> {}]
  /\ toAdd = [r \in Runs |-> {}]
  /\ toRemove = [r \in Runs |-> {}]
  /\ issued = [r \in Runs |-> <<>>]
  /\ otherErr = {}
  /\ overlap = FALSE
  /\ setupFailed = {}
  /\ apc = "idle"
  /\ group_emails = <<>>
  /\ gi = 0
  /\ audit_data = <<>>
  /\ auditRange = priorRange
  /\ events = <<>>

\* ------------------------------------------------------- Reconciler actions
\* lines 82-88: a run is launched and authenticates; a sequential run waits
\* for the previous one to end.
Authenticate(r) ==
  /\ scenario \in {"sequential", "concurrent"}
  /\ pc[r] = "idle"
  /\ r = 2 => (pc[1] # "idle" /\ (scenario = "sequential" => Ended(1)))
  /\ \E ok \in BOOLEAN :
       /\ pc' = [pc EXCEPT ![r] = IF ok THEN "read" ELSE AuthFailurePc]
       /\ setupFailed' = IF ok THEN setupFailed ELSE setupFailed \cup {r}
  /\ after1' = IF r = 2 /\ scenario = "sequential" THEN members ELSE after1
  /\ otherErr' = IF r = 2 /\ scenario = "sequential" /\ otherErr # {}
                 THEN {<<1, 0>>} ELSE otherErr
  /\ UNCHANGED <<scenario, sheet, exists, members, initMembers, cur,
                 all_known_groups, toAdd, toRemove, issued, overlap, avars>>

\* lines 121-155: the loop moves on from row i to the next row that issues a
\* call, or ends (line 157 is the last line of the loop body).
MoveOn(r, i, known) ==
  IF BusyRows(i, known) = {}
  THEN /\ pc' = [pc EXCEPT ![r] = "done"]
       /\ cur' = [cur EXCEPT ![r] = Len(sheet)]
       /\ toAdd' = [toAdd EXCEPT ![r] = {}]
       /\ toRemove' = [toRemove EXCEPT ![r] = {}]
  ELSE LET j == Min(BusyRows(i, known)) IN
       /\ pc' = [pc EXCEPT ![r] = "rows"]
       /\ cur' = [cur EXCEPT ![r] = j]
       /\ toAdd' = [toAdd EXCEPT ![r] = AddTargets(sheet[j], known)]
       /\ toRemove' = [toRemove EXCEPT ![r] = RemoveTargets(sheet[j], known)]

\* lines 94-117: the table is read and the master list built
ReadSheet(r) ==
  /\ pc[r] = "read"
  /\ \E ok \in BOOLEAN :
       IF ~ok THEN
         /\ pc' = [pc EXCEPT ![r] = ReadFailurePc]
         /\ setupFailed' = setupFailed \cup {r}
         /\ UNCHANGED <<all_known_groups, issued, cur, toAdd, toRemove>>
       ELSE IF sheet = <<>> THEN
         /\ pc' = [pc EXCEPT ![r] = "done"]
         /\ UNCHANGED <<all_known_groups, issued, cur, toAdd, toRemove, setupFailed>>
       ELSE
         /\ UNCHANGED setupFailed
         /\ all_known_groups' = [all_known_groups EXCEPT ![r] = AllKnownGroups(sheet)]
         /\ issued' = [issued EXCEPT ![r] =
              [k \in (DOMAIN sheet) \X AllKnownGroups(sheet) |-> <<>>]]
         /\ MoveOn(r, 0, AllKnownGroups(sheet))
  /\ UNCHANGED <<scenario, sheet, exists, members, initMembers, after1,
                 otherErr, overlap, avars>>

\* Interleaved runs record only that some call returned OtherError.
ErrKey(r) == IF scenario = "concurrent" THEN <<0, 0>> ELSE <<r, cur[r]>>

Record(r, g, op, o) ==
  /\ issued' = [issued EXCEPT ![r][<<cur[r], g>>] = Append(@, <<op, UserEmail(r)>>)]
  /\ otherErr' = IF o = "OtherError" THEN otherErr \cup {ErrKey(r)} ELSE otherErr
  /\ overlap' = (overlap \/ (InLoop(Other(r)) /\ ~NoCalls(Other(r))))

\* after a call: the exception escapes, or the loops go on
AfterCall(r, swallowed, adds, removes) ==
  IF ~swallowed
  THEN /\ pc' = [pc EXCEPT ![r] = "crashed"]
       /\ toAdd' = [toAdd EXCEPT ![r] = adds]
       /\ toRemove' = [toRemove EXCEPT ![r] = removes]
       /\ UNCHANGED cur
  ELSE IF adds \cup removes # {}
  THEN /\ toAdd' = [toAdd EXCEPT ![r] = adds]
       /\ toRemove' = [toRemove EXCEPT ![r] = removes]
       /\ UNCHANGED <<pc, cur>>
  ELSE MoveOn(r, cur[r], all_known_groups[r])

\* lines 148-149 with safe_add, lines 51-64: one insert() call
SafeAdd(r) ==
  /\ pc[r] = "rows"
  /\ \E g \in toAdd[r] :
       \E o \in AddOutcomes(members, g, UserEmail(r)) :
         /\ members' = AddMember(members, g, UserEmail(r), o)
         /\ AfterCall(r, SafeAddSwallows(o), toAdd[r] \ {g}, toRemove[r])
         /\ Record(r, g, "ADD", o)
  /\ UNCHANGED <<scenario, sheet, exists, initMembers, after1, all_known_groups,
                 setupFailed, avars>>

\* lines 143-144, 153-155 with safe_remove, lines 66-76: one delete() call
SafeRemove(r) ==
  /\ pc[r] = "rows"
  /\ toAdd[r] = {}
  /\ \E g \in toRemove[r] :
       \E o \in RemoveOutcomes(members, g, UserEmail(r)) :
         /\ members' = RemoveMember(members, g, UserEmail(r), o)
         /\ AfterCall(r, SafeRemoveSwallows(o), toAdd[r], toRemove[r] \ {g})
         /\ Record(r, g, "REMOVE", o)
  /\ UNCHANGED <<scenario, sheet, exists, initMembers, after1, all_known_groups,
                 setupFailed, avars>>

RunStep(r) ==
  \/ Authenticate(r)
  \/ ReadSheet(r)
  \/ SafeAdd(r)
  \/ SafeRemove(r)

\* ---------------------------------------------------------- Auditor: helpers
HeaderRow ==
  << <<"G", "r", "o", "u", "p">>, <<"M", "e", "m", "b", "e", "r">>,
     <<"R", "o", "l", "e">>, <<"T", "y", "p", "e">> >>

\* line 54: "if not group_email or '@' not in group_email: continue"
IsGroupEmail(s) == s # EMPTY /\ Contains(s, "@")

\* m.get(key, '')
Get(m, key) == IF key \in DOMAIN m THEN m[key] ELSE EMPTY

\* line 62
AuditRow(g, m) == <<g, Get(m, "email"), Get(m, "role"), Get(m, "type")>>

\* lines 60-62
AuditRows(g, ms) == [i \in DOMAIN ms |-> AuditRow(g, ms[i])]

\* directory: members().list(); a key the directory does not know fails
ListOutcomes(g) == IF g \in DOMAIN listing THEN BOOLEAN ELSE {FALSE}

\* line 41: get_service() is not guarded; its exception ends the run
GetServiceFailurePc == "crashed"

\* lines 44-46: the header read is not guarded; its exception ends the run
HeaderFailurePc == "crashed"

\* the loop body without its try/except
FetchFailureEscapes == "crashed"

\* lines 63-64: the failure is printed and the loop goes on
FetchFailurePc == "fetch"

\* a clear() that misses the range
ClearedNothing(range) == range

\* lines 67-69: values().clear() on AUDIT!A1:Z1000
Cleared(range) == <<>>

\* lines 71-76: values().update() at AUDIT!A1; the grid's rows replace the rows
\* they cover
Updated(range, grid) ==
  [i \in 1..(IF Len(range) > Len(grid) THEN Len(range) ELSE Len(grid)) |->
     IF i <= Len(grid) THEN grid[i] ELSE range[i]]

\* ---------------------------------------------------------- Auditor actions
\* line 41
GetService ==
  /\ scenario = "audit"
  /\ apc = "idle"
  /\ \E ok \in BOOLEAN :
       /\ apc' = IF ok THEN "header" ELSE GetServiceFailurePc
       /\ setupFailed' = IF ok THEN setupFailed ELSE setupFailed \cup {0}
  /\ UNCHANGED <<scenario, rvars, mainHeader, listing, group_emails, gi, audit_data,
                 auditRange, priorRange, events>>

\* lines 44-50
ReadHeader ==
  /\ apc = "header"
  /\ \E ok \in BOOLEAN :
       IF ok
       THEN /\ apc' = "fetch"
            /\ UNCHANGED setupFailed
            /\ group_emails' = mainHeader
            /\ audit_data' = <<HeaderRow>>
            /\ gi' = 1
       ELSE /\ apc' = HeaderFailurePc
            /\ setupFailed' = setupFailed \cup {0}
            /\ UNCHANGED <<group_emails, audit_data, gi>>
  /\ UNCHANGED <<scenario, rvars, mainHeader, listing, auditRange, priorRange, events>>

\* lines 53-64: one iteration of the loop over the header cells
AuditGroup ==
  /\ apc = "fetch"
  /\ gi <= Len(group_emails)
  /\ LET g == group_emails[gi] IN
       IF ~IsGroupEmail(g)
       THEN /\ gi' = gi + 1
            /\ UNCHANGED <<apc, audit_data, events>>
       ELSE \E ok \in ListOutcomes(g) :
              /\ events' = Append(events, [ev |-> "fetch", at |-> gi, ok |-> ok])
              /\ gi' = gi + 1
              /\ IF ok
                 THEN /\ audit_data' = audit_data \o AuditRows(g, listing[g])
                      /\ UNCHANGED apc
                 ELSE /\ apc' = FetchFailurePc
                      /\ UNCHANGED audit_data
  /\ UNCHANGED <<scenario, setupFailed, rvars, mainHeader, listing, group_emails, auditRange,
                 priorRange>>

\* lines 67-69
ClearRange ==
  /\ apc = "fetch"
  /\ gi > Len(group_emails)
  /\ auditRange' = Cleared(auditRange)
  /\ events' = Append(events, [ev |-> "clear"])
  /\ apc' = "write"
  /\ UNCHANGED <<scenario, setupFailed, rvars, mainHeader, listing, group_emails, gi, audit_data,
                 priorRange>>

\* lines 71-78
WriteRange ==
  /\ apc = "write"
  /\ auditRange' = Updated(auditRange, audit_data)
  /\ events' = Append(events, [ev |-> "write"])
  /\ apc' = "done"
  /\ UNCHANGED <<scenario, setupFailed, rvars, mainHeader, listing, group_emails, gi, audit_data,
                 priorRange>>

AuditStep ==
  \/ GetService
  \/ ReadHeader
  \/ AuditGroup
  \/ ClearRange
  \/ WriteRange

\* One job at a time: two Reconciler runs one after the other, or the Auditor.
Init ==
  /\ \/ scenario = "sequential" /\ InitReconciler
     \/ InitAuditor
  /\ InitLocals

Next == (\E r \in Runs : RunStep(r)) \/ AuditStep

Spec == Init /\ [][Next]_vars

\* Two Reconciler runs launched against the same table and directory, their
\* calls interleaved in any order.
InitConc == scenario = "concurrent" /\ InitReconciler /\ InitLocals

NextConc == \E r \in Runs : RunStep(r)

SpecConc == InitConc /\ [][NextConc]_vars

\* ------------------------------------------------------------ properties
\* Run r has just come to its end: no other run has acted since.
Completed(r) ==
  /\ scenario = "sequential"
  /\ pc[r] = "done"
  /\ sheet # <<>>
  /\ r = 1 => pc[2] = "idle"

\* The status cell reads "active" once trimmed and lowered.
ReadsActive(row) == Len(row) > 1 /\ Lower(Strip(row[2])) = ACTIVE

\* Rows with a usable user identifier.
DataRows == { i \in DOMAIN sheet : sheet[i] # <<>> /\ Strip(sheet[i][1]) # EMPTY }

\* Rows naming the same user as row i.
RowsOfUser(i) == { j \in DataRows : Strip(sheet[j][1]) = Strip(sheet[i][1]) }

\* Groups of the universe that hold user u.
GroupsHolding(u) == { g \in AllKnownGroups(sheet) : <<g, u>> \in members }

\* C1: no run ever issues a REMOVE call whose user is in ProtectedSet.
C1_NoRemoveForProtected ==
  \A r \in Runs : \A k \in DOMAIN issued[r] : \A n \in DOMAIN issued[r][k] :
    issued[r][k][n][1] = "REMOVE" => issued[r][k][n][2] \notin ProtectedSet

\* C2: after a run in which no call failed, a non-protected user named on one
\* row only, whose status is anything but active (inactive, absent, empty,
\* unrecognized), is a member of none of the known groups.
C2_NotActiveInNoGroup ==
  \A r \in Runs : Completed(r) /\ otherErr = {} =>
    \A i \in DataRows :
      ( /\ ~ReadsActive(sheet[i])
        /\ RowsOfUser(i) = {i}
        /\ Strip(sheet[i][1]) \notin ProtectedSet )
      => GroupsHolding(Strip(sheet[i][1])) = {}

PlannedCalls(i, g) ==
  IF g \in AddTargets(sheet[i], AllKnownGroups(sheet)) THEN << <<"ADD", UserOf(sheet[i])>> >>
  ELSE IF g \in RemoveTargets(sheet[i], AllKnownGroups(sheet))
  THEN << <<"REMOVE", UserOf(sheet[i])>> >>
  ELSE <<>>

C6_SetupFailureNoEffects ==
  /\ \A r \in Runs : r \in setupFailed =>
       /\ pc[r] = "fatal"
       /\ issued[r] = <<>>
       /\ (scenario = "sequential" /\ r = 1 /\ pc[2] = "idle") => members = initMembers
       /\ (scenario = "sequential" /\ r = 2) => members = after1
  /\ 0 \in setupFailed =>
       /\ apc = "crashed"
       /\ events = <<>>
       /\ auditRange = priorRange

C6_Witness ==
  /\ setupFailed = {1, 2}
  /\ sheet # <<>>
  /\ members # {}
  /\ pc[1] = "fatal"

\* The fetch of header cell i succeeded.
FetchOk(i) == \E n \in DOMAIN events :
  events[n].ev = "fetch" /\ events[n].at = i /\ events[n].ok

Fetched == SelectSeq(events, LAMBDA e : e.ev = "fetch")

RECURSIVE ExpectedRows(_)
ExpectedRows(i) ==
  IF i = 0 THEN <<>>
  ELSE ExpectedRows(i - 1) \o
       (IF IsGroupEmail(mainHeader[i]) /\ FetchOk(i)
        THEN AuditRows(mainHeader[i], listing[mainHeader[i]]) ELSE <<>>)

RECURSIVE ExpectedCount(_)
ExpectedCount(i) ==
  IF i = 0 THEN 0
  ELSE ExpectedCount(i - 1) +
       (IF Contains(mainHeader[i], "@") /\ FetchOk(i) THEN Len(listing[mainHeader[i]]) ELSE 0)

RECURSIVE EmailCells(_)
EmailCells(i) ==
  IF i = 0 THEN <<>>
  ELSE EmailCells(i - 1) \o (IF Contains(mainHeader[i], "@") THEN <<i>> ELSE <<>>)

CountOf(ev) == Len(SelectSeq(events, LAMBDA e : e.ev = ev))

\* C8: past the header read the run always goes on to clear the range once, after
\* the last fetch, and then to write once; the range is empty between the two and
\* holds the report alone afterwards, the header row alone if no fetch succeeded.
C8_ClearThenWrite ==
  /\ CountOf("clear") <= 1 /\ CountOf("write") <= 1
  /\ apc = "fetch" => (CountOf("clear") = 0 /\ ENABLED (AuditGroup \/ ClearRange))
  /\ apc = "write" =>
       /\ events = Fetched \o << [ev |-> "clear"] >>
       /\ auditRange = <<>>
       /\ ENABLED WriteRange
  /\ apc = "done" =>
       /\ events = Fetched \o << [ev |-> "clear"], [ev |-> "write"] >>
       /\ auditRange = audit_data
       /\ (\A n \in DOMAIN Fetched : ~Fetched[n].ok) => auditRange = <<HeaderRow>>
  /\ apc = "crashed" => events = <<>>

C8_Witness ==
  /\ apc = "done"
  /\ priorRange # <<>>
  /\ Fetched # <<>>
  /\ \A n \in DOMAIN Fetched : ~Fetched[n].ok
  /\ auditRange = <<HeaderRow>>

\* Memberships a row of the table can leave, from a membership of S, each of its
\* calls either taking effect or returning OtherError.
RowOutcomes(S, i) ==
  LET known == AllKnownGroups(sheet)
      u == UserOf(sheet[i])
      adds == (AddTargets(sheet[i], known) \cap exists) \X {u}
      removes == RemoveTargets(sheet[i], known) \X {u}
  IN  IF i \notin DataRows THEN S
      ELSE { (m \cup a) \ d : m \in S, a \in SUBSET adds, d \in SUBSET removes }

RECURSIVE RunOutcomes(_, _)
RunOutcomes(S, i) == IF i = 0 THEN S ELSE RowOutcomes(RunOutcomes(S, i - 1), i)

\* What one row leaves when every call takes effect.
RowResult(m, i) ==
  LET known == AllKnownGroups(sheet)
      u == UserOf(sheet[i])
  IN  IF i \notin DataRows THEN m
      ELSE (m \cup ((AddTargets(sheet[i], known) \cap exists) \X {u}))
             \ (RemoveTargets(sheet[i], known) \X {u})

RECURSIVE RunResult(_, _)
RunResult(m, i) == IF i = 0 THEN m ELSE RowResult(RunResult(m, i - 1), i)

Started == { r \in Runs : pc[r] # "idle" }

\* C9: when every launched run has ended, one run alone or two interleaved, the
\* membership is one a single run can leave from the initial membership; and when
\* a run got past its set-up and no call returned OtherError it is the membership
\* a single run leaves.
C9_ConcurrentRunsAsOne ==
  (Started # {} /\ \A r \in Started : Ended(r)) =>
    /\ members \in RunOutcomes({initMembers}, Len(sheet))
    /\ ((Started \ setupFailed # {} /\ otherErr = {})
          => members = RunResult(initMembers, Len(sheet)))

C9_Witness ==
  /\ pc[1] = "done" /\ pc[2] = "done"
  /\ overlap
  /\ otherErr = {}
  /\ members # initMembers
  /\ \E k \in DOMAIN issued[1] : issued[1][k] # <<>> /\ issued[1][k][1][1] = "ADD"

\* Calls of run r made for user u and group g, over all rows.
PairCalls(r, u, g) ==
  { i \in DOMAIN sheet : issued[r][<<i, g>>] # <<>> /\ issued[r][<<i, g>>][1][2] = u }

\* C10: in a run, every row with a user and every group of the universe get
\* exactly one call, ADD if the row is active and lists the group, REMOVE
\* otherwise, and no pair of user and group is called twice.
C10_ExactlyOneCallPerPair ==
  \A r \in Runs : (pc[r] = "done" /\ sheet # <<>>) =>
    /\ \A i \in DataRows : \A g \in AllKnownGroups(sheet) :
         issued[r][<<i, g>>] =
           << << IF ReadsActive(sheet[i]) /\ g \in GroupCells(sheet[i])
                 THEN "ADD" ELSE "REMOVE", Strip(sheet[i][1]) >> >>
    /\ \A u \in UserIds : \A g \in AllKnownGroups(sheet) :
         Cardinality(PairCalls(r, u, g)) <= 1

====
